---------------------------- MODULE Spec2Model ----------------------------
(***************************************************************************)
(* A model of the DynamicEQ plugin core: DynamicEQBand (one filter band    *)
(* with an envelope-driven gain reduction), DynamicEQAudioProcessor (the   *)
(* cascade of bands and the active band count) and SpectrumAnalyzer (the   *)
(* ring buffer and the single-slot snapshot hand-off).                     *)
(*                                                                         *)
(* Number representation.  The code computes in float.  The model uses     *)
(* fixed point: a level in dB is an integer number of tenths of a dB, a    *)
(* linear amplitude is an integer number of thousandths of full scale, a   *)
(* smoothing coefficient is an integer number of thousandths.  log10 and   *)
(* pow are evaluated on a 5 dB grid, exp by a rational approximant; each   *)
(* is monotone, as the float functions are.                                *)
(***************************************************************************)
EXTENDS Integers, Sequences, FiniteSets, TLC

VARIABLES
    \* ---- one DynamicEQBand driven through its public interface ----
    band,        \* the DynamicEQBand object
    bandPc,      \* "fresh" | "updated" | "processed": where the caller is
    buffer,      \* the juce::AudioBuffer handed to process, after the call and until the next one
    inBuffer,    \* the same buffer as it was before the call
    twin,        \* a second band given the same calls with dynamicOn = false
    twinBuffer,  \* the twin's buffer after the call
    twinSame,    \* the two bands' IIR memories are equal
    aboveAll,    \* every block processed so far had threshold > MaxInputDb
    blocks,      \* the number of blocks processed so far
    grBefore,    \* the gain reduction the band published before the last process
    repeated,    \* the last call was updateParams, with the params of the updateParams before it
    envBefore,   \* the envelope before the last process
    \* ---- DynamicEQAudioProcessor: the audio thread and the threads that set the count ----
    activeBandCount,  \* std::atomic<int> activeBandCount
    apvts,            \* the parameter tree: the BandParams of every band
    lastSampleRate,   \* lastSampleRate
    bands,            \* std::array<DynamicEQBand, numBands> bands
    audioPc,          \* "idle" | "loop" | "post": where processBlock is
    loopI,            \* the loop variable i of processBlock
    audioBuf,         \* the buffer processBlock was handed, as it is now
    prePushed,        \* what the pre-EQ analyzer was pushed in this block
    postPushed,       \* what the post-EQ analyzer was pushed in this block
    applied,          \* the band indices processed in this block, in order
    countAtStart,     \* the active band count when the running block began, else 0
    countChanged,     \* the count was stored to while this block was in progress
    engBlocks,        \* the number of blocks begun so far
    \* ---- one SpectrumAnalyzer: the audio thread pushes, the GUI thread runs processFFT ----
    circularBuffer,       \* circularBuffer, indexed from 0
    fftData,              \* the first fftSize slots of fftData (the rest stay 0)
    renderBuffer,         \* the first fftSize slots of renderBuffer
    writePos,             \* writePos
    hopCounter,           \* hopCounter
    newFFTDataAvailable,  \* juce::Atomic<bool> newFFTDataAvailable
    magnitudeDB,          \* the array processFFT is handed to fill
    prodPc,               \* "idle" | "append" | "capture": where pushSamples is
    pushLeft,             \* the samples of this pushSamples call not yet appended
    capJ,                 \* the loop variable j of the capture
    consPc,               \* "idle" | "copy": where processFFT is
    cpJ,                  \* the position of std::copy in processFFT
    pushed,               \* the number of samples appended so far
    captures,             \* the number of captures completed so far
    capturedAt,           \* the value of pushed when the last capture was made
    capsAtTake,           \* the value of captures when processFFT last proceeded
    capsAtPrevTake,       \* the value of captures when it proceeded the time before
    overlapped,           \* a capture wrote fftData during the current or last copy
    lastCall,             \* "none" | "proceeded" | "noop": the last processFFT call
    proceeded,            \* the processFFT calls that went past the test of the flag
    \* ---- processFFT from the copy on, as a function of the captured window ----
    fnWindow,   \* the contents of fftData the call starts from
    fnMinDB,    \* the argument minDB
    fnMaxDB,    \* the argument maxDB
    fnBins,     \* the array the call is handed to fill
    fnPc,       \* "ready" | "done": before and after the call
    \* ---- SpectrumComponent: the cached EQ curve and what the timer reads ----
    curveNeedsUpdate,      \* curveNeedsUpdate
    lastActiveBandCount,   \* lastActiveBandCount
    lastSnapshots,         \* lastSnapshots
    cachedBandMagnitudes,  \* cachedBandMagnitudes, of the bands and at the points the model samples
    cachedTotalMagnitude,  \* cachedTotalMagnitude
    curveFrequencies,      \* curveFrequencies, at the points the model samples
    width,                 \* getWidth()
    grNow,                 \* what getBandGainReduction (i) returns, in hundredths of a dB
    lastTick               \* "none" | "reused" | "returned" | "rebuilt": the last timer tick

bandVars ==
    <<band, bandPc, buffer, inBuffer, twin, twinBuffer, twinSame, aboveAll, blocks,
      grBefore, repeated, envBefore>>

engineVars ==
    <<activeBandCount, apvts, lastSampleRate, bands, audioPc, loopI, audioBuf,
      prePushed, postPushed, applied, countAtStart, countChanged, engBlocks>>

saVars ==
    <<circularBuffer, fftData, renderBuffer, writePos, hopCounter, newFFTDataAvailable,
      magnitudeDB, prodPc, pushLeft, capJ, consPc, cpJ, pushed, captures, capturedAt,
      capsAtTake, capsAtPrevTake, overlapped, lastCall, proceeded>>

fnVars == <<fnWindow, fnMinDB, fnMaxDB, fnBins, fnPc>>

curveVars ==
    <<curveNeedsUpdate, lastActiveBandCount, lastSnapshots, cachedBandMagnitudes,
      cachedTotalMagnitude, curveFrequencies, width, grNow, lastTick>>

editorVars == <<fnVars, curveVars>>

vars == <<bandVars, engineVars, saVars, editorVars>>

---------------------------------------------------------------------------
(* Arithmetic helpers *)

Abs(x) == IF x < 0 THEN -x ELSE x

Max(a, b) == IF a >= b THEN a ELSE b

Min(a, b) == IF a <= b THEN a ELSE b

SetMax(S) == CHOOSE m \in S : \A x \in S : x <= m

\* 1.0f as a smoothing coefficient (thousandths)
CoeffOne == 1000

\* the floor -100.0f passed to gainToDecibels / decibelsToGain (tenths of a dB)
MinusInfDb == -1000

\* 10^(dB/20) in thousandths of full scale, for dB = -60, -55, ..., +10
PowTable == <<1, 2, 3, 6, 10, 18, 32, 56, 100, 178, 316, 562, 1000, 1778, 3162>>

\* the dB value (tenths) of the k-th grid point
GridDb(k) == 50 * k - 650

\* juce::Decibels::gainToDecibels (gain, minusInf):
\*   gain > 0 ? max (minusInf, log10 (gain) * 20) : minusInf
GainToDecibels(gain, minusInf) ==
    IF gain > 0
    THEN Max(minusInf, GridDb(Cardinality({k \in DOMAIN PowTable : PowTable[k] <= gain})))
    ELSE minusInf

\* juce::Decibels::decibelsToGain (dB, minusInf):
\*   dB > minusInf ? pow (10, dB * 0.05) : 0
DecibelsToGain(dB, minusInf) ==
    IF dB > minusInf
    THEN PowTable[Min(Len(PowTable), Max(1, (dB + 650) \div 50))]
    ELSE 0

\* std::exp (-1.0f / (sampleRate * timeMs * 0.001f)) in thousandths:
\* exp(-x) ~ (2 - x) / (2 + x) = 1 - 2x / (2 + x) with x = 1000 / (sampleRate * timeMs)
ExpCoeff(sampleRate, timeMs) ==
    LET t == sampleRate * timeMs
    IN  Max(0, CoeffOne - (2 * 1000 * CoeffOne) \div (2 * t + 1000))

---------------------------------------------------------------------------
(* BandParams and the values the model draws them from *)

GainTypes == {"LowShelf", "Peak", "HighShelf"}

CutTypes == {"LowCut", "HighCut", "Notch", "BandPass"}

FilterType == GainTypes \cup CutTypes

Gains == {0, -60}

Thresholds == {-200, 100}

Ratios == {1, 4}

SampleRates == {0, 1000}

\* a band of the given type and gain that compresses above -20 dB at ratio 4
BaseParams(type, gain) ==
    [frequency |-> 1000, gain |-> gain, q |-> 1, threshold |-> -200, ratio |-> 4,
     attackMs |-> 2, releaseMs |-> 4, enabled |-> TRUE, dynamicOn |-> TRUE,
     type |-> type]

\* The BandParams handed to updateParams: a Peak band in every combination of
\* enabled and dynamicOn and of threshold and ratio, every filter type in
\* dynamic mode, and a LowCut band at every gain and disabled.
BandParamsSet ==
    {[BaseParams("Peak", -60) EXCEPT !.enabled = e, !.dynamicOn = d] : e, d \in BOOLEAN}
    \cup {[BaseParams("Peak", -60) EXCEPT !.threshold = t, !.ratio = r] :
            t \in Thresholds, r \in Ratios}
    \cup {BaseParams(t, -60) : t \in FilterType}
    \cup {BaseParams("LowCut", g) : g \in Gains}
    \cup {[BaseParams("LowCut", -60) EXCEPT !.enabled = FALSE]}

\* the member initialisers of struct BandParams
DefaultParams ==
    [frequency |-> 1000, gain |-> 0, q |-> 1, threshold |-> -200, ratio |-> 4,
     attackMs |-> 10, releaseMs |-> 100, enabled |-> TRUE, dynamicOn |-> TRUE,
     type |-> "Peak"]

---------------------------------------------------------------------------
(* Audio buffers the model feeds in *)

\* the plugin's buses are stereo
NumChannels == 2

\* frames in one block
BlockLen == 2

\* blocks processed in one run of the band model
MaxBlocks == 2

\* An audio signal is the samples it started from (x) and the coefficient sets
\* of the filters applied to it since, in order (fx).

\* sample values, in thousandths of full scale
Samples == {-1000, 0, 316}

\* one channel of one block: silence, then sample s in the last frame
ChannelBlock(s) == [i \in 1..BlockLen |-> IF i = BlockLen THEN s ELSE 0]

\* a raw signal: samples no filter has touched yet
RawSignal(samples) == [x |-> samples, fx |-> <<>>]

\* the buffers handed to process: sample s on channel c, silence elsewhere
InputBuffers ==
    {[ch \in 1..NumChannels |-> RawSignal(ChannelBlock(IF ch = c THEN s ELSE 0))] :
        c \in 1..NumChannels, s \in Samples}

\* the level in dB of the loudest sample the input can hold
MaxInputDb == GainToDecibels(SetMax({IF s < 0 THEN -s ELSE s : s \in Samples}), MinusInfDb)

---------------------------------------------------------------------------
(* EnvelopeFollower *)

NewEnvelopeFollower ==
    [sampleRate |-> 44100, attackCoeff |-> 0, releaseCoeff |-> 0, envelope |-> 0]

\* a slip: the envelope not reset
EnvPrepare_keepsEnvelope(e, newSampleRate) == [e EXCEPT !.sampleRate = newSampleRate]

EnvPrepare(e, newSampleRate) ==
    [e EXCEPT !.sampleRate = newSampleRate, !.envelope = 0]

\* a slip: no test of the sample rate
SetAttackRelease_unguarded(e, attackMs, releaseMs) ==
    [e EXCEPT !.attackCoeff = ExpCoeff(e.sampleRate, attackMs),
              !.releaseCoeff = ExpCoeff(e.sampleRate, releaseMs)]

SetAttackRelease(e, attackMs, releaseMs) ==
    IF e.sampleRate <= 0
    THEN e
    ELSE [e EXCEPT !.attackCoeff = ExpCoeff(e.sampleRate, attackMs),
                   !.releaseCoeff = ExpCoeff(e.sampleRate, releaseMs)]

\* a slip: the two coefficients exchanged
EnvProcess_exchanged(e, inputLevel) ==
    LET coeff == IF inputLevel > e.envelope THEN e.releaseCoeff ELSE e.attackCoeff
    IN  [e EXCEPT !.envelope =
            (coeff * e.envelope + (CoeffOne - coeff) * inputLevel) \div CoeffOne]

\* the new envelope; process returns it and stores it
EnvProcess(e, inputLevel) ==
    LET coeff == IF inputLevel > e.envelope THEN e.attackCoeff ELSE e.releaseCoeff
    IN  [e EXCEPT !.envelope =
            (coeff * e.envelope + (CoeffOne - coeff) * inputLevel) \div CoeffOne]

---------------------------------------------------------------------------
(* DynamicEQBand *)

\* a default-constructed IIR filter state: b = {1,0,0}, a = {1,0,0}
PassThrough ==
    [type |-> "PassThrough", sampleRate |-> 0, frequency |-> 0, q |-> 0, gain |-> 0]

\* a slip: the gain handed to the factory of every filter type
MakeCoefficients_gainForAll(type, sampleRate, frequency, q, gainDB) ==
    [type |-> type, sampleRate |-> sampleRate, frequency |-> frequency, q |-> q,
     gain |-> Max(gainDB, MinusInfDb)]

\* The coefficient set one factory call yields, named by the arguments the call
\* receives.  The shelf and peak factories receive decibelsToGain (gainDB), which
\* is 0 for every gainDB <= -100 dB; the cut, notch and band-pass branches take
\* no gain argument.
MakeCoefficients(type, sampleRate, frequency, q, gainDB) ==
    [type |-> type, sampleRate |-> sampleRate, frequency |-> frequency, q |-> q,
     gain |-> IF type \in GainTypes THEN Max(gainDB, MinusInfDb) ELSE 0]

NewBand ==
    [params |-> DefaultParams, sampleRate |-> 44100, env |-> NewEnvelopeFollower,
     coeffs |-> PassThrough, sidechain |-> PassThrough, gainReductionDB |-> 0]

UpdateFilterCoefficients(b, gainDB) ==
    IF b.sampleRate <= 0
    THEN b
    ELSE [b EXCEPT !.coeffs = MakeCoefficients(b.params.type, b.sampleRate,
                                               b.params.frequency, b.params.q, gainDB)]

UpdateSidechainFilter(b) ==
    IF b.sampleRate <= 0
    THEN b
    ELSE [b EXCEPT !.sidechain = MakeCoefficients("BandPass", b.sampleRate,
                                                  b.params.frequency, b.params.q, 0)]

Prepare(b, sampleRate) ==
    [b EXCEPT !.sampleRate = sampleRate,
              !.env = EnvPrepare(b.env, sampleRate),
              !.gainReductionDB = 0]

\* a slip: the coefficients computed before the new params are stored
UpdateParams_coeffsFirst(b, p) ==
    LET b1 == UpdateSidechainFilter(UpdateFilterCoefficients(b, p.gain))
    IN  [b1 EXCEPT !.params = p,
                   !.env = SetAttackRelease(b1.env, p.attackMs, p.releaseMs)]

\* a slip: the static coefficients not recomputed
UpdateParams_keepCoeffs(b, p) ==
    [b EXCEPT !.params = p,
              !.env = SetAttackRelease(b.env, p.attackMs, p.releaseMs)]

UpdateParams(b, p) ==
    LET b1 == [b EXCEPT !.params = p,
                        !.env = SetAttackRelease(b.env, p.attackMs, p.releaseMs)]
    IN  UpdateSidechainFilter(UpdateFilterCoefficients(b1, p.gain))

\* a slip: the two terms of the reduction swapped
ReductionDB_swapped(envDB, threshold, ratio) ==
    IF envDB > threshold
    THEN LET excess == envDB - threshold IN excess \div ratio - excess
    ELSE 0

\* a slip: the excess divided by the ratio, not reduced by it
ReductionDB_ratioOnly(envDB, threshold, ratio) ==
    IF envDB > threshold
    THEN LET excess == envDB - threshold IN excess \div ratio
    ELSE 0

\* a slip: the comparison with the threshold reversed
ReductionDB_below(envDB, threshold, ratio) ==
    IF envDB < threshold
    THEN LET excess == envDB - threshold IN excess - excess \div ratio
    ELSE 0

\* the gain reduction of one block, from the envelope in dB
ReductionDB(envDB, threshold, ratio) ==
    IF envDB > threshold
    THEN LET excess == envDB - threshold IN excess - excess \div ratio
    ELSE 0

\* a slip: the early return without the store of 0
ProcessDisabled_noStore(b) == b

\* process on a disabled band: store 0 and return
ProcessDisabled(b) == [b EXCEPT !.gainReductionDB = 0]

\* process in static mode: filter with the coefficients as they are, store 0
ProcessStatic(b) == [b EXCEPT !.gainReductionDB = 0]

\* process in dynamic mode, peakLevel being the buffer's largest |sample|
ProcessDynamic(b, peakLevel) ==
    LET levelDB == GainToDecibels(peakLevel, MinusInfDb)
        e1 == EnvProcess(b.env, DecibelsToGain(levelDB, MinusInfDb))
        envDB == GainToDecibels(e1.envelope, MinusInfDb)
        reductionDB == ReductionDB(envDB, b.params.threshold, b.params.ratio)
        b1 == [b EXCEPT !.env = e1, !.gainReductionDB = reductionDB]
    IN  UpdateFilterCoefficients(b1, b.params.gain - reductionDB)

\* the band after process (buffer)
Process(b, peakLevel) ==
    IF ~b.params.enabled
    THEN ProcessDisabled(b)
    ELSE IF ~b.params.dynamicOn
    THEN ProcessStatic(b)
    ELSE ProcessDynamic(b, peakLevel)

\* The level of a signal after the filter with coefficients c, the signal being
\* taken as a tone at the band's frequency: a shelf or peak filter scales it by
\* its gain, the other types pass it.
FilteredLevel(c, level) ==
    IF level = 0
    THEN 0
    ELSE DecibelsToGain(GainToDecibels(level, MinusInfDb) + c.gain, MinusInfDb)

RECURSIVE LevelAfter(_, _)
LevelAfter(fx, level) ==
    IF fx = <<>> THEN level ELSE LevelAfter(Tail(fx), FilteredLevel(Head(fx), level))

\* the largest |sample| of one channel
SignalPeak(sig) ==
    LevelAfter(sig.fx, SetMax({0} \cup {Abs(sig.x[i]) : i \in DOMAIN sig.x}))

\* the largest |sample| over all channels and frames of a buffer
PeakLevel(buf) == SetMax({0} \cup {SignalPeak(buf[ch]) : ch \in DOMAIN buf})

\* what process leaves in the buffer: every channel filtered in place with the
\* band's coefficients, or the buffer as it was when the band is disabled
ProcessBuffer(b, buf, peakLevel) ==
    IF ~b.params.enabled
    THEN buf
    ELSE [ch \in DOMAIN buf |->
            [buf[ch] EXCEPT !.fx = Append(@, Process(b, peakLevel).coeffs)]]

---------------------------------------------------------------------------
(* DynamicEQAudioProcessor *)

numBands == 8

BandIndex == 0..(numBands - 1)

\* blocks begun in one run of the processor model
MaxEngineBlocks == 1

JLimit(lo, hi, v) == IF v < lo THEN lo ELSE IF hi < v THEN hi ELSE v

\* defaultFreqs of createParameterLayout
DefaultFrequency == <<60, 200, 500, 1000, 2000, 5000, 10000, 16000>>

\* the default values createParameterLayout registers for band i
DefaultBandParams(i) ==
    [DefaultParams EXCEPT
        !.frequency = DefaultFrequency[i + 1],
        !.type = IF i = 0 THEN "LowShelf"
                 ELSE IF i = numBands - 1 THEN "HighShelf" ELSE "Peak"]

DefaultTree == [i \in BandIndex |-> DefaultBandParams(i)]

\* The parameter trees setStateInformation restores: the defaults, and a tree
\* whose band 1 cuts 6 dB and compresses above -60 dB.
ParamTrees ==
    {DefaultTree, [DefaultTree EXCEPT ![1].threshold = -600, ![1].gain = -60]}

\* the arguments setActiveBandCount and a stored count are drawn from
CountArgs == {0 - 1, 0, 3, numBands + 1}

\* The data setStateInformation is handed: data that is no state of this
\* plugin, states saved without a band count, and states with any count.
SavedStates ==
    {[valid |-> FALSE, hasCount |-> FALSE, count |-> 0, tree |-> DefaultTree]}
    \cup {[valid |-> TRUE, hasCount |-> FALSE, count |-> 0, tree |-> t] : t \in ParamTrees}
    \cup {[valid |-> TRUE, hasCount |-> TRUE, count |-> c, tree |-> t] :
                c \in CountArgs, t \in ParamTrees}

\* a slip: the band processed before its parameters are refreshed
UpdateAndProcess_processFirst(b, p, buf) == UpdateParams(Process(b, PeakLevel(buf)), p)

\* updateBandParams (i) followed by bands[i].process (buffer)
UpdateAndProcess(b, p, buf) == Process(UpdateParams(b, p), PeakLevel(buf))

\* the buffer after updateBandParams (i) and bands[i].process (buffer)
UpdateAndProcessBuffer(b, p, buf) ==
    ProcessBuffer(UpdateParams(b, p), buf, PeakLevel(buf))

\* a slip: only the upper limit applied
ClampCount_upperOnly(count) == Min(numBands, count)

\* the value setActiveBandCount (count) stores
ClampCount(count) == JLimit(1, numBands, count)

\* a slip: the loop run over every band the processor holds
LoopContinues_allBands(i, count) == i < numBands

\* a slip: the loop stops one band early
LoopContinues_lessOne(i, count) == i + 1 < count

\* processBlock's loop condition i < activeBandCount.load()
LoopContinues(i, count) == i < count

\* the sample rates the host prepares the processor with
HostSampleRates == {44100}

\* a block with a full-scale sample on the last channel
LoudBuffer ==
    [ch \in 1..NumChannels |-> RawSignal(ChannelBlock(IF ch = NumChannels THEN -1000 ELSE 0))]

SilentBuffer == [ch \in 1..NumChannels |-> RawSignal(ChannelBlock(0))]

\* the blocks the host hands to processBlock
EngineInputs == {SilentBuffer, LoudBuffer}

InitEngineVars ==
    /\ activeBandCount = 4
    /\ apvts = DefaultTree
    /\ lastSampleRate = 44100
    /\ bands = [i \in BandIndex |-> NewBand]
    /\ audioPc = "idle"
    /\ loopI = 0
    /\ audioBuf = SilentBuffer
    /\ prePushed = <<>>
    /\ postPushed = <<>>
    /\ applied = <<>>
    /\ countAtStart = 0
    /\ countChanged = FALSE
    /\ engBlocks = 0

---------------------------------------------------------------------------
(* SpectrumAnalyzer.  The sizes are the source's scaled down: fftOrder is 12  *)
(* and hopSize 512 in the source.  Samples and magnitudes are in thousandths *)
(* of full scale, spectrum bins in thousandths.                              *)

fftOrder == 2

RECURSIVE ShiftLeft(_, _)
ShiftLeft(v, n) == IF n = 0 THEN v ELSE ShiftLeft(2 * v, n - 1)

fftSize == ShiftLeft(1, fftOrder)

hopSize == 2

\* the longest signal pushed, and the longest pushSamples call
MaxSamples == 6

MaxPush == 3

SlotIndex == 0..(fftSize - 1)

BinIndex == 0..(fftSize \div 2 - 1)

\* a & b for a, b >= 0
RECURSIVE BitAnd(_, _)
BitAnd(a, b) ==
    IF a = 0 \/ b = 0
    THEN 0
    ELSE (a % 2) * (b % 2) + 2 * BitAnd(a \div 2, b \div 2)

\* The k-th sample the host's signal holds, k = 1, 2, ...: a signal within
\* full scale whose samples all differ, so that each tells where it came from.
SampleAt(k) == ((k * 377) % 2001) - 1000

\* a slip: the hop counted one sample too long
HopReached_late(counter) == counter > hopSize

\* hopCounter >= hopSize
HopReached(counter) == counter >= hopSize

\* a slip: the ring index of the capture without the mask
CaptureIndex_unmasked(pos, j) == pos + j

\* the ring slot the capture reads for snapshot slot j
CaptureIndex(pos, j) == BitAnd(pos + j, fftSize - 1)

\* a slip: the flag tested but not cleared
CompareAndSetBool_noSet(value, newValue, valueToCompare) ==
    [value |-> value, swapped |-> value = valueToCompare]

\* a slip: the swap made whatever the value was
CompareAndSetBool_always(value, newValue, valueToCompare) ==
    [value |-> newValue, swapped |-> TRUE]

\* a slip: the swap made when the value is not the one compared with
CompareAndSetBool_inverted(value, newValue, valueToCompare) ==
    [value |-> IF value # valueToCompare THEN newValue ELSE value,
     swapped |-> value # valueToCompare]

\* juce::Atomic<bool>::compareAndSetBool (newValue, valueToCompare) on value
CompareAndSetBool(value, newValue, valueToCompare) ==
    [value |-> IF value = valueToCompare THEN newValue ELSE value,
     swapped |-> value = valueToCompare]

\* the Hann window of the constructor, normalised to mean 1, for 4 and 8 points
HannWindow ==
    IF fftSize = 4
    THEN <<0, 2000, 2000, 0>>
    ELSE <<0, 430, 1397, 2173, 2173, 1397, 430, 0>>

\* cos (2 pi m / 8)
CosEighth == <<1000, 707, 0, -707, -1000, -707, 0, 707>>

\* cos and sin of 2 pi m / fftSize
Cos(m) == CosEighth[((m * (8 \div fftSize)) % 8) + 1]

Sin(m) == Cos(m + (3 * fftSize) \div 4)

RECURSIVE SqrtIn(_, _, _)
SqrtIn(lo, hi, n) ==
    IF hi - lo <= 1
    THEN lo
    ELSE LET mid == (lo + hi) \div 2
         IN  IF mid * mid <= n THEN SqrtIn(mid, hi, n) ELSE SqrtIn(lo, mid, n)

\* the integer part of the square root, n < 2^30
Sqrt(n) == SqrtIn(0, 32768, n)

RECURSIVE SumTo(_, _)
SumTo(f, n) == IF n < 0 THEN 0 ELSE f[n] + SumTo(f, n - 1)

\* window.multiplyWithWindowingTable
Windowed(w) == [n \in SlotIndex |-> (w[n] * HannWindow[n + 1]) \div 1000]

\* fft.performFrequencyOnlyForwardTransform: the magnitude of every bin
FrequencyOnlyForwardTransform(y) ==
    [k \in SlotIndex |->
        LET re == SumTo([n \in SlotIndex |-> (y[n] * Cos(k * n)) \div 1000], fftSize - 1)
            im == SumTo([n \in SlotIndex |-> (y[n] * Sin(k * n)) \div 1000], fftSize - 1)
        IN  Sqrt(re * re + im * im)]

\* the default minDB and maxDB of processFFT, in tenths of a dB
DefaultMinDB == -1000

DefaultMaxDB == 0

\* juce::jmap (value, sourceMin, sourceMax, 0, 1), the result in thousandths
JMap(value, sourceMin, sourceMax) ==
    (1000 * (value - sourceMin)) \div (sourceMax - sourceMin)

\* the bins processFFT writes from the transformed work buffer
SpectrumBins(transformed, minDB, maxDB) ==
    [i \in BinIndex |->
        JMap(GainToDecibels(transformed[i] \div fftSize, minDB), minDB, maxDB)]

Zeros == [j \in SlotIndex |-> 0]

\* The last fftSize samples the ring holds once n samples were appended,
\* oldest first; the slots never written hold the constructor's 0.
Window(n) ==
    [j \in SlotIndex |->
        LET k == n - fftSize + j + 1 IN IF k >= 1 THEN SampleAt(k) ELSE 0]

InitSAVars ==
    /\ circularBuffer = Zeros
    /\ fftData = Zeros
    /\ renderBuffer = Zeros
    /\ writePos = 0
    /\ hopCounter = 0
    /\ newFFTDataAvailable = FALSE
    /\ magnitudeDB = [i \in BinIndex |-> 0]
    /\ prodPc = "idle"
    /\ pushLeft = 0
    /\ capJ = 0
    /\ consPc = "idle"
    /\ cpJ = 0
    /\ pushed = 0
    /\ captures = 0
    /\ capturedAt = 0
    /\ capsAtTake = 0
    /\ capsAtPrevTake = 0
    /\ overlapped = FALSE
    /\ lastCall = "none"
    /\ proceeded = 0

---------------------------------------------------------------------------
(* processFFT as a function of the captured window, minDB and maxDB *)

\* the amplitudes of the windows the function is given, 2000 being twice full scale
WindowAmplitudes == {0, 1, 250, 1000, 2000}

\* window shapes: a constant, an alternation, one impulse, a step
WindowShapes ==
    {[j \in SlotIndex |-> 1],
     [j \in SlotIndex |-> IF j % 2 = 0 THEN 1 ELSE 0 - 1],
     [j \in SlotIndex |-> IF j = 1 THEN 1 ELSE 0],
     [j \in SlotIndex |-> IF 2 * j < fftSize THEN 1 ELSE 0 - 1]}

InputWindows == {[j \in SlotIndex |-> a * s[j]] : a \in WindowAmplitudes, s \in WindowShapes}

\* the pairs <<minDB, maxDB>>, minDB < maxDB, in tenths of a dB
DbRanges == {<<-1000, 0>>, <<-600, 0>>, <<-1000, -200>>, <<-600, 100>>}

InitFnVars ==
    /\ fnWindow = Zeros
    /\ fnMinDB = DefaultMinDB
    /\ fnMaxDB = DefaultMaxDB
    /\ fnBins = [i \in BinIndex |-> 0]
    /\ fnPc = "ready"

---------------------------------------------------------------------------
(* SpectrumComponent: the cached EQ curve.  The gains and gain reductions  *)
(* of a snapshot are in hundredths of a dB, the cached magnitudes in       *)
(* tenths of a dB, linear magnitudes in thousandths.                       *)

\* the points the curve is sampled at (curveNumPoints, 1024 in the source)
CurvePoints == 3

PointIndex == 0..(CurvePoints - 1)

\* xToFreq (t * width, width) with t = i / (curveNumPoints - 1): 20 * 1000^t
CurveFrequencies ==
    IF CurvePoints = 3
    THEN <<20, 632, 20000>>
    ELSE <<20, 200, 2000, 20000>>

\* static_cast<int> of the type parameter: the position in the enum
TypeIndex(type) ==
    CASE type = "LowShelf" -> 0
      [] type = "Peak" -> 1
      [] type = "HighShelf" -> 2
      [] type = "LowCut" -> 3
      [] type = "HighCut" -> 4
      [] type = "Notch" -> 5
      [] type = "BandPass" -> 6

\* a default-constructed BandSnapshot
NewSnapshot ==
    [freq |-> 0, gain |-> 0, q |-> 0, gr |-> 0, type |-> 0,
     enabled |-> FALSE, dynamic |-> FALSE]

\* 0.05f dB in hundredths of a dB
GrTolerance == 5

\* a slip: the published gain reduction stored whatever the band's mode
TakeSnapshot_rawReduction(i) ==
    [freq |-> apvts[i].frequency,
     gain |-> 10 * apvts[i].gain,
     q |-> apvts[i].q,
     gr |-> grNow[i],
     type |-> TypeIndex(apvts[i].type),
     enabled |-> apvts[i].enabled,
     dynamic |-> apvts[i].dynamicOn]


\* the snapshot checkAndUpdateCurve takes of band i
TakeSnapshot(i) ==
    [freq |-> apvts[i].frequency,
     gain |-> 10 * apvts[i].gain,
     q |-> apvts[i].q,
     gr |-> IF apvts[i].dynamicOn THEN grNow[i] ELSE 0,
     type |-> TypeIndex(apvts[i].type),
     enabled |-> apvts[i].enabled,
     dynamic |-> apvts[i].dynamicOn]

\* a slip: any difference of the gain reduction counts
SnapshotDiffers_exact(snap, last) == snap # last

\* the comparison of a new snapshot with the stored one
SnapshotDiffers(snap, last) ==
    \/ snap.freq # last.freq
    \/ snap.gain # last.gain
    \/ snap.q # last.q
    \/ snap.type # last.type
    \/ snap.enabled # last.enabled
    \/ snap.dynamic # last.dynamic
    \/ Abs(snap.gr - last.gr) > GrTolerance

\* the flag changed of checkAndUpdateCurve after its loop
CurveChanged ==
    \/ curveNeedsUpdate
    \/ activeBandCount # lastActiveBandCount
    \/ \E i \in BandIndex :
            i < activeBandCount /\ SnapshotDiffers(TakeSnapshot(i), lastSnapshots[i])

\* lastSnapshots after the loop of checkAndUpdateCurve
UpdatedSnapshots ==
    [i \in BandIndex |->
        IF i < activeBandCount /\ SnapshotDiffers(TakeSnapshot(i), lastSnapshots[i])
        THEN TakeSnapshot(i)
        ELSE lastSnapshots[i]]

\* The linear magnitude at frequency f of the filter rebuildCurveCache builds
\* from a snapshot (the factories and getMagnitudeForFrequencyArray), as the
\* ideal response of the type: the gain factor inside the band or shelf and 1
\* outside, 0 in the stop band of a cut, a notch or a band-pass.
MagnitudeOf(snap, f) ==
    LET effectiveGain == IF snap.dynamic THEN snap.gain - snap.gr ELSE snap.gain
        gainFactor == DecibelsToGain(effectiveGain \div 10, MinusInfDb)
        near == f <= 4 * snap.freq /\ snap.freq <= 4 * f
    IN  CASE snap.type = 0 -> IF f <= snap.freq THEN gainFactor ELSE 1000
          [] snap.type = 1 -> IF near THEN gainFactor ELSE 1000
          [] snap.type = 2 -> IF f >= snap.freq THEN gainFactor ELSE 1000
          [] snap.type = 3 -> IF f < snap.freq THEN 0 ELSE 1000
          [] snap.type = 4 -> IF f > snap.freq THEN 0 ELSE 1000
          [] snap.type = 5 -> IF near THEN 0 ELSE 1000
          [] snap.type = 6 -> IF near THEN 1000 ELSE 0

\* cachedBandMagnitudes[b] after the loop body of rebuildCurveCache for band b
BandMagnitudes(snap) ==
    [i \in PointIndex |->
        IF snap.enabled
        THEN GainToDecibels(MagnitudeOf(snap, CurveFrequencies[i + 1]), MinusInfDb)
        ELSE 0]

\* totalLinearMagnitude[i] after the loop of rebuildCurveCache has run for the
\* bands 0 .. n - 1: a disabled band is skipped by continue
RECURSIVE TotalLinearMagnitude(_, _, _)
TotalLinearMagnitude(snaps, n, i) ==
    IF n = 0
    THEN 1000
    ELSE LET total == TotalLinearMagnitude(snaps, n - 1, i)
         IN  IF snaps[n - 1].enabled
             THEN (total * MagnitudeOf(snaps[n - 1], CurveFrequencies[i + 1])) \div 1000
             ELSE total

\* a slip: the bands' dB values summed
TotalMagnitude_summed(snaps, n) ==
    LET RECURSIVE SumDb(_, _)
        SumDb(m, i) ==
            IF m = 0 THEN 0 ELSE SumDb(m - 1, i) + BandMagnitudes(snaps[m - 1])[i]
    IN  [i \in PointIndex |-> SumDb(n, i)]

\* cachedTotalMagnitude after rebuildCurveCache has run for n active bands
TotalMagnitude(snaps, n) ==
    [i \in PointIndex |-> GainToDecibels(TotalLinearMagnitude(snaps, n, i), MinusInfDb)]

\* the widths the component is given
Widths == {0, 800}

\* the gain reductions the audio thread publishes, in hundredths of a dB
GainReductions == {0, 4, 500}

\* the arguments of setActiveBandCount while the editor is watched
CurveCounts == {3, numBands}

\* the band whose gain reduction and parameters the model varies
VariedBand == 1

\* The parameter trees the editor sees: the defaults, band 1 cutting 6 dB,
\* band 1 in static mode, and band 0 disabled with bands 1 and 2 as low cuts.
CurveTrees ==
    ParamTrees \cup
    {[DefaultTree EXCEPT ![VariedBand].dynamicOn = FALSE],
     [DefaultTree EXCEPT ![0].enabled = FALSE,
                         ![VariedBand].type = "LowCut", ![VariedBand + 1].type = "LowCut"]}

InitCurveVars ==
    /\ curveNeedsUpdate = TRUE
    /\ lastActiveBandCount = 0 - 1
    /\ lastSnapshots = [i \in BandIndex |-> NewSnapshot]
    /\ cachedBandMagnitudes = [b \in BandIndex |-> [i \in PointIndex |-> 0]]
    /\ cachedTotalMagnitude = [i \in PointIndex |-> 0]
    /\ curveFrequencies = [i \in PointIndex |-> 0]
    /\ width = 0
    /\ grNow = [i \in BandIndex |-> 0]
    /\ lastTick = "none"

InitEditorVars == InitFnVars /\ InitCurveVars

---------------------------------------------------------------------------
(* SpecBand: one band, called as the processor calls it: prepare, then for  *)
(* each block updateParams followed by process.  The twin is a second band  *)
(* that receives the same calls with dynamicOn = false.                     *)

StaticOf(p) == [p EXCEPT !.dynamicOn = FALSE]

InitBandVars ==
    /\ band = NewBand
    /\ bandPc = "fresh"
    /\ buffer = SilentBuffer
    /\ inBuffer = buffer
    /\ twin = NewBand
    /\ twinBuffer = buffer
    /\ twinSame = TRUE
    /\ aboveAll = TRUE
    /\ blocks = 0
    /\ grBefore = 0
    /\ repeated = FALSE
    /\ envBefore = 0

InitBand == InitBandVars /\ InitEngineVars /\ InitSAVars /\ InitEditorVars

\* the caller is done with the buffer of the last process call
ReleaseBuffer ==
    /\ buffer' = SilentBuffer
    /\ inBuffer' = SilentBuffer
    /\ twinBuffer' = SilentBuffer
    /\ grBefore' = 0
    /\ envBefore' = 0

BandPrepare(sampleRate) ==
    /\ band' = Prepare(band, sampleRate)
    /\ repeated' = FALSE
    /\ twin' = Prepare(twin, sampleRate)
    /\ bandPc' = "fresh"
    /\ twinSame' = TRUE
    /\ ReleaseBuffer
    /\ UNCHANGED <<aboveAll, blocks>>
    /\ UNCHANGED <<engineVars, saVars, editorVars>>

BandUpdateParams(p) ==
    /\ band' = UpdateParams(band, p)
    /\ repeated' = (bandPc = "updated" /\ band.params = p)
    /\ twin' = UpdateParams(twin, StaticOf(p))
    /\ bandPc' = "updated"
    /\ ReleaseBuffer
    /\ UNCHANGED <<twinSame, aboveAll, blocks>>
    /\ UNCHANGED <<engineVars, saVars, editorVars>>

BandProcess(buf) ==
    /\ bandPc = "updated"
    /\ blocks < MaxBlocks
    /\ blocks' = blocks + 1
    /\ repeated' = FALSE
    /\ grBefore' = band.gainReductionDB
    /\ envBefore' = band.env.envelope
    /\ LET peak == PeakLevel(buf)
       IN  /\ band' = Process(band, peak)
           /\ buffer' = ProcessBuffer(band, buf, peak)
           /\ twin' = Process(twin, peak)
           /\ twinBuffer' = ProcessBuffer(twin, buf, peak)
           /\ twinSame' = (twinSame /\ (band.params.enabled =>
                                Process(band, peak).coeffs = Process(twin, peak).coeffs))
    /\ inBuffer' = buf
    /\ aboveAll' = (aboveAll /\ band.params.threshold > MaxInputDb)
    /\ bandPc' = "processed"
    /\ UNCHANGED <<engineVars, saVars, editorVars>>

NextBand ==
    \/ \E sampleRate \in SampleRates : BandPrepare(sampleRate)
    \/ \E p \in BandParamsSet : BandUpdateParams(p)
    \/ \E buf \in InputBuffers : BandProcess(buf)

SpecBand == InitBand /\ [][NextBand]_vars

---------------------------------------------------------------------------
(* Spec: the processor.  The audio thread runs processBlock one loop pass   *)
(* at a time.  The stores to the active band count come from the message   *)
(* thread, one handler at a time, at any moment of a block.  A click is     *)
(* modelled whether or not its button is shown enabled.                     *)

\* a store to activeBandCount, and whether it changed the count mid-block
StoreCount(count) ==
    /\ activeBandCount' = count
    /\ countChanged' = (countChanged \/ (audioPc # "idle" /\ count # activeBandCount))

PrepareToPlay(sampleRate) ==
    /\ audioPc = "idle"
    /\ lastSampleRate' = sampleRate
    /\ bands' = [i \in BandIndex |-> UpdateParams(Prepare(bands[i], sampleRate), apvts[i])]
    /\ UNCHANGED <<activeBandCount, apvts, audioPc, loopI, audioBuf, prePushed,
                   postPushed, applied, countAtStart, countChanged, engBlocks>>
    /\ UNCHANGED <<bandVars, saVars, editorVars>>

\* processBlock up to the loop, in a run of at most blocksAllowed blocks: the
\* pre-EQ analyzer is pushed the mono mix
BeginBlockWithin(buf, blocksAllowed) ==
    /\ audioPc = "idle"
    /\ engBlocks < blocksAllowed
    /\ engBlocks' = engBlocks + 1
    /\ audioBuf' = buf
    /\ prePushed' = buf
    /\ postPushed' = <<>>
    /\ loopI' = 0
    /\ applied' = <<>>
    /\ countAtStart' = activeBandCount
    /\ countChanged' = FALSE
    /\ audioPc' = "loop"
    /\ UNCHANGED <<activeBandCount, apvts, lastSampleRate, bands>>
    /\ UNCHANGED <<bandVars, saVars, editorVars>>

BeginBlock(buf) == BeginBlockWithin(buf, MaxEngineBlocks)

\* one evaluation of the loop condition, and the loop body when it holds
LoopStep ==
    /\ audioPc = "loop"
    /\ IF LoopContinues(loopI, activeBandCount)
       THEN /\ bands' = [bands EXCEPT
                            ![loopI] = UpdateAndProcess(@, apvts[loopI], audioBuf)]
            /\ audioBuf' = UpdateAndProcessBuffer(bands[loopI], apvts[loopI], audioBuf)
            /\ applied' = Append(applied, loopI)
            /\ loopI' = loopI + 1
            /\ UNCHANGED audioPc
       ELSE /\ audioPc' = "post"
            /\ UNCHANGED <<bands, audioBuf, applied, loopI>>
    /\ UNCHANGED <<activeBandCount, apvts, lastSampleRate, prePushed, postPushed,
                   countAtStart, countChanged, engBlocks>>
    /\ UNCHANGED <<bandVars, saVars, editorVars>>

\* processBlock after the loop: the post-EQ analyzer is pushed the mono mix
EndBlock ==
    /\ audioPc = "post"
    /\ postPushed' = audioBuf
    /\ audioPc' = "idle"
    /\ loopI' = 0
    /\ applied' = <<>>
    /\ countAtStart' = 0
    /\ countChanged' = FALSE
    /\ UNCHANGED <<activeBandCount, apvts, lastSampleRate, bands, audioBuf,
                   prePushed, engBlocks>>
    /\ UNCHANGED <<bandVars, saVars, editorVars>>

SetActiveBandCount(count) ==
    /\ StoreCount(ClampCount(count))
    /\ UNCHANGED <<apvts, lastSampleRate, bands, audioPc, loopI, audioBuf, prePushed,
                   postPushed, applied, countAtStart, engBlocks>>
    /\ UNCHANGED <<bandVars, saVars, editorVars>>

\* addBandBtn.onClick: setActiveBandCount (getActiveBandCount() + 1)
AddBandClick ==
    /\ StoreCount(ClampCount(activeBandCount + 1))
    /\ UNCHANGED <<apvts, lastSampleRate, bands, audioPc, loopI, audioBuf, prePushed,
                   postPushed, applied, countAtStart, engBlocks>>
    /\ UNCHANGED <<bandVars, saVars, editorVars>>

\* removeBandBtn.onClick: setActiveBandCount (getActiveBandCount() - 1)
RemoveBandClick ==
    /\ StoreCount(ClampCount(activeBandCount - 1))
    /\ UNCHANGED <<apvts, lastSampleRate, bands, audioPc, loopI, audioBuf, prePushed,
                   postPushed, applied, countAtStart, engBlocks>>
    /\ UNCHANGED <<bandVars, saVars, editorVars>>

\* setStateInformation (data): xml.valid is "the data parsed to xml with the
\* tree's tag", xml.hasCount is tree.hasProperty ("activeBandCount")
SetStateInformation(xml) ==
    /\ IF xml.valid
       THEN /\ IF xml.hasCount
               THEN StoreCount(ClampCount(xml.count))
               ELSE UNCHANGED <<activeBandCount, countChanged>>
            /\ apvts' = xml.tree
       ELSE UNCHANGED <<activeBandCount, countChanged, apvts>>
    /\ UNCHANGED <<lastSampleRate, bands, audioPc, loopI, audioBuf, prePushed,
                   postPushed, applied, countAtStart, engBlocks>>
    /\ UNCHANGED <<bandVars, saVars, editorVars>>

Init == InitBandVars /\ InitEngineVars /\ InitSAVars /\ InitEditorVars

Next ==
    \/ \E sampleRate \in HostSampleRates : PrepareToPlay(sampleRate)
    \/ \E buf \in EngineInputs : BeginBlock(buf)
    \/ LoopStep
    \/ EndBlock
    \/ \E count \in CountArgs : SetActiveBandCount(count)
    \/ AddBandClick
    \/ RemoveBandClick
    \/ \E xml \in SavedStates : SetStateInformation(xml)

Spec == Init /\ [][Next]_vars

---------------------------------------------------------------------------
(* SpecSA: one SpectrumAnalyzer.  The audio thread runs pushSamples and the  *)
(* GUI thread processFFT, each one memory access at a time; the capture and  *)
(* the copy in processFFT both touch fftData with nothing to order them.     *)

producerGhosts == <<capsAtTake, capsAtPrevTake, lastCall, proceeded>>

consumerVars == <<renderBuffer, magnitudeDB, consPc, cpJ>>

\* the loop of pushSamples moves on to its next sample, or the call returns
NextSample ==
    /\ pushLeft' = pushLeft - 1
    /\ prodPc' = IF pushLeft > 1 THEN "append" ELSE "idle"

\* pushSamples (data, numSamples) is called
PushSamples(numSamples) ==
    /\ prodPc = "idle"
    /\ pushed + numSamples <= MaxSamples
    /\ pushLeft' = numSamples
    /\ prodPc' = IF numSamples > 0 THEN "append" ELSE "idle"
    /\ UNCHANGED <<circularBuffer, fftData, writePos, hopCounter, newFFTDataAvailable,
                   capJ, pushed, captures, capturedAt, overlapped>>
    /\ UNCHANGED <<producerGhosts, consumerVars>>
    /\ UNCHANGED <<bandVars, engineVars, editorVars>>

\* one pass of the loop of pushSamples up to the test of the hop counter
AppendSample ==
    /\ prodPc = "append"
    /\ circularBuffer' = [circularBuffer EXCEPT ![writePos] = SampleAt(pushed + 1)]
    /\ writePos' = BitAnd(writePos + 1, fftSize - 1)
    /\ pushed' = pushed + 1
    /\ IF HopReached(hopCounter + 1)
       THEN /\ hopCounter' = 0
            /\ capJ' = 0
            /\ prodPc' = "capture"
            /\ UNCHANGED pushLeft
       ELSE /\ hopCounter' = hopCounter + 1
            /\ NextSample
            /\ UNCHANGED capJ
    /\ UNCHANGED <<fftData, newFFTDataAvailable, captures, capturedAt, overlapped>>
    /\ UNCHANGED <<producerGhosts, consumerVars>>
    /\ UNCHANGED <<bandVars, engineVars, editorVars>>

\* the capture copies one slot of the ring into fftData
CaptureCopy ==
    /\ prodPc = "capture"
    /\ capJ < fftSize
    /\ fftData' = [fftData EXCEPT ![capJ] = circularBuffer[CaptureIndex(writePos, capJ)]]
    /\ capJ' = capJ + 1
    /\ overlapped' = (overlapped \/ (consPc = "copy" /\ cpJ < fftSize))
    /\ UNCHANGED <<circularBuffer, writePos, hopCounter, newFFTDataAvailable, prodPc,
                   pushLeft, pushed, captures, capturedAt>>
    /\ UNCHANGED <<producerGhosts, consumerVars>>
    /\ UNCHANGED <<bandVars, engineVars, editorVars>>

\* a slip: the capture published only once the consumer took the one before
CaptureSet_waits ==
    /\ prodPc = "capture"
    /\ capJ = fftSize
    /\ ~newFFTDataAvailable
    /\ newFFTDataAvailable' = TRUE
    /\ captures' = captures + 1
    /\ capturedAt' = pushed
    /\ NextSample
    /\ UNCHANGED <<circularBuffer, fftData, writePos, hopCounter, capJ, pushed,
                   overlapped>>
    /\ UNCHANGED <<producerGhosts, consumerVars>>
    /\ UNCHANGED <<bandVars, engineVars, editorVars>>

\* the capture is complete: newFFTDataAvailable.set (true)
CaptureSet ==
    /\ prodPc = "capture"
    /\ capJ = fftSize
    /\ newFFTDataAvailable' = TRUE
    /\ captures' = captures + 1
    /\ capturedAt' = pushed
    /\ NextSample
    /\ UNCHANGED <<circularBuffer, fftData, writePos, hopCounter, capJ, pushed,
                   overlapped>>
    /\ UNCHANGED <<producerGhosts, consumerVars>>
    /\ UNCHANGED <<bandVars, engineVars, editorVars>>

\* processFFT (magnitudeDB) is called: the test-and-clear of the flag
ProcessFFT ==
    /\ consPc = "idle"
    /\ LET cas == CompareAndSetBool(newFFTDataAvailable, FALSE, TRUE)
       IN  /\ newFFTDataAvailable' = cas.value
           /\ IF cas.swapped
              THEN /\ consPc' = "copy"
                   /\ cpJ' = 0
                   /\ overlapped' = (prodPc = "capture")
                   /\ capsAtTake' = captures
                   /\ capsAtPrevTake' = capsAtTake
                   /\ lastCall' = "proceeded"
                   /\ proceeded' = proceeded + 1
              ELSE /\ lastCall' = "noop"
                   /\ UNCHANGED <<consPc, cpJ, overlapped, capsAtTake, capsAtPrevTake,
                                  proceeded>>
    /\ UNCHANGED <<circularBuffer, fftData, renderBuffer, writePos, hopCounter,
                   magnitudeDB, prodPc, pushLeft, capJ, pushed, captures, capturedAt>>
    /\ UNCHANGED <<bandVars, engineVars, editorVars>>

\* std::copy moves one slot of fftData into renderBuffer
CopyStep ==
    /\ consPc = "copy"
    /\ cpJ < fftSize
    /\ renderBuffer' = [renderBuffer EXCEPT ![cpJ] = fftData[cpJ]]
    /\ cpJ' = cpJ + 1
    /\ UNCHANGED <<circularBuffer, fftData, writePos, hopCounter, newFFTDataAvailable,
                   magnitudeDB, prodPc, pushLeft, capJ, consPc, pushed, captures,
                   capturedAt, overlapped>>
    /\ UNCHANGED producerGhosts
    /\ UNCHANGED <<bandVars, engineVars, editorVars>>

\* the rest of processFFT: window, transform in place, scale, write the bins
Transform ==
    /\ consPc = "copy"
    /\ cpJ = fftSize
    /\ renderBuffer' = FrequencyOnlyForwardTransform(Windowed(renderBuffer))
    /\ magnitudeDB' = SpectrumBins(renderBuffer', DefaultMinDB, DefaultMaxDB)
    /\ consPc' = "idle"
    /\ UNCHANGED <<circularBuffer, fftData, writePos, hopCounter, newFFTDataAvailable,
                   prodPc, pushLeft, capJ, cpJ, pushed, captures, capturedAt, overlapped>>
    /\ UNCHANGED producerGhosts
    /\ UNCHANGED <<bandVars, engineVars, editorVars>>

InitSA == InitBandVars /\ InitEngineVars /\ InitSAVars /\ InitEditorVars

NextSA ==
    \/ \E numSamples \in 0..MaxPush : PushSamples(numSamples)
    \/ AppendSample
    \/ CaptureCopy
    \/ CaptureSet
    \/ ProcessFFT
    \/ CopyStep
    \/ Transform

SpecSA == InitSA /\ [][NextSA]_vars

---------------------------------------------------------------------------
(* SpecAudio: the audio thread against the consumer.  processBlock is run    *)
(* with its call of preSpectrum.pushSamples spelled out one memory access at *)
(* a time (the analyzer's samples stand for the mono mix), while the GUI     *)
(* thread runs processFFT on that analyzer at any moment.                     *)
(* The push to the post-EQ analyzer, a second object running                 *)
(* the same code, stays inside EndBlock.  Only the audio thread is fair: the *)
(* consumer may stop for good at any point.                                  *)

\* the blocks the audio thread runs against the consumer
MaxAudioBlocks == 2

\* processBlock up to its call of preSpectrum.pushSamples (mono, numSamples)
AudioBeginBlock(buf) ==
    /\ audioPc = "idle"
    /\ prodPc = "idle"
    /\ engBlocks < MaxAudioBlocks
    /\ pushed + BlockLen <= MaxSamples
    /\ engBlocks' = engBlocks + 1
    /\ audioBuf' = buf
    /\ prePushed' = buf
    /\ postPushed' = <<>>
    /\ loopI' = 0
    /\ applied' = <<>>
    /\ countAtStart' = activeBandCount
    /\ countChanged' = FALSE
    /\ audioPc' = "pre"
    /\ pushLeft' = BlockLen
    /\ prodPc' = "append"
    /\ UNCHANGED <<activeBandCount, apvts, lastSampleRate, bands>>
    /\ UNCHANGED <<circularBuffer, fftData, writePos, hopCounter, newFFTDataAvailable,
                   capJ, pushed, captures, capturedAt, overlapped>>
    /\ UNCHANGED <<producerGhosts, consumerVars>>
    /\ UNCHANGED <<bandVars, editorVars>>

\* preSpectrum.pushSamples has returned: processBlock enters its loop
AudioPushReturns ==
    /\ audioPc = "pre"
    /\ prodPc = "idle"
    /\ audioPc' = "loop"
    /\ UNCHANGED <<activeBandCount, apvts, lastSampleRate, bands, loopI, audioBuf,
                   prePushed, postPushed, applied, countAtStart, countChanged, engBlocks>>
    /\ UNCHANGED <<bandVars, saVars, editorVars>>

\* a step of pushSamples
PushStep ==
    \/ AppendSample
    \/ CaptureCopy
    \/ CaptureSet

\* a step of the audio thread
AudioStep ==
    \/ PushStep
    \/ AudioPushReturns
    \/ LoopStep
    \/ EndBlock

\* The audio thread is scheduled: weak fairness of its steps.  LoopStep can be
\* taken exactly when processBlock is at its loop, which is written out here.
AudioFair ==
    /\ WF_vars(PushStep)
    /\ WF_vars(AudioPushReturns)
    /\ WF_vars(EndBlock)
    /\ ([]<>(audioPc # "loop") \/ []<><<LoopStep>>_vars)

\* a step of the GUI thread
ConsumerStep ==
    \/ ProcessFFT
    \/ CopyStep
    \/ Transform

NextAudio ==
    \/ \E buf \in EngineInputs : AudioBeginBlock(buf)
    \/ AudioStep
    \/ ConsumerStep

SpecAudio == Init /\ [][NextAudio]_vars /\ AudioFair

---------------------------------------------------------------------------
(* Claims about one band, checked under SpecBand *)

\* the envelope of the band in dB, as process compares it with the threshold
EnvDB == GainToDecibels(band.env.envelope, MinusInfDb)

Dynamic == band.params.enabled /\ band.params.dynamicOn

\* the buffer as it came in, every channel filtered once with coefficients c
FilteredWith(c) == [ch \in DOMAIN inBuffer |-> [inBuffer[ch] EXCEPT !.fx = <<c>>]]

\* C4: the gain reduction a band publishes is never negative (every ratio of
\* the model is >= 1), and a process call publishes exactly 0 when the envelope
\* in dB is at or below the threshold.
C4_GainReductionNonNegative ==
    /\ band.gainReductionDB >= 0
    /\ (bandPc = "processed" /\ EnvDB <= band.params.threshold)
            => band.gainReductionDB = 0

C4_Witness ==
    /\ bandPc = "processed" /\ Dynamic
    /\ band.env.envelope > 0
    /\ EnvDB <= band.params.threshold
    /\ grBefore > 0
    /\ band.gainReductionDB = 0

\* C5: in dynamic mode, an envelope above the threshold publishes
\* excess - excess/ratio with excess = envelope dB - threshold; threshold -20 dB,
\* ratio 4 and an envelope of -10 dB give 7.5 dB.
C5_ReductionLaw ==
    (bandPc = "processed" /\ Dynamic /\ EnvDB > band.params.threshold) =>
        /\ band.gainReductionDB =
              (EnvDB - band.params.threshold)
                - (EnvDB - band.params.threshold) \div band.params.ratio
        /\ (band.params.threshold = -200 /\ band.params.ratio = 4 /\ EnvDB = -100)
              => band.gainReductionDB = 75

C5_Witness ==
    /\ bandPc = "processed" /\ Dynamic
    /\ band.params.threshold = -200 /\ band.params.ratio = 4
    /\ EnvDB = -100
    /\ band.gainReductionDB = 75

\* C6: process on a disabled band leaves the buffer as it was and publishes 0,
\* whatever dynamicOn, the filter type and the gain reduction published before.
C6_DisabledIsNoOp ==
    (bandPc = "processed" /\ ~band.params.enabled) =>
        /\ buffer = inBuffer
        /\ band.gainReductionDB = 0

C6_Witness ==
    /\ bandPc = "processed" /\ ~band.params.enabled
    /\ grBefore > 0
    /\ PeakLevel(inBuffer) > 0
    /\ buffer = inBuffer
    /\ band.gainReductionDB = 0

\* C7: process on an enabled band in static mode filters every channel in place
\* with the band's coefficients, which for a prepared band (sample rate > 0) are
\* the ones of the plain static gain, and publishes 0, whatever the level of the
\* block and the gain reduction published before.
C7_StaticFiltersWithStaticGain ==
    (bandPc = "processed" /\ band.params.enabled /\ ~band.params.dynamicOn) =>
        /\ buffer = FilteredWith(band.coeffs)
        /\ band.sampleRate > 0 =>
              band.coeffs = MakeCoefficients(band.params.type, band.sampleRate,
                                band.params.frequency, band.params.q, band.params.gain)
        /\ band.gainReductionDB = 0

C7_Witness ==
    /\ bandPc = "processed" /\ band.params.enabled /\ ~band.params.dynamicOn
    /\ band.sampleRate > 0
    /\ grBefore > 0
    /\ PeakLevel(inBuffer) > 0
    /\ buffer = FilteredWith(MakeCoefficients(band.params.type, band.sampleRate,
                                band.params.frequency, band.params.q, band.params.gain))
    /\ band.gainReductionDB = 0

\* C8: while the threshold has been above the loudest possible input in every
\* block processed, the band in dynamic mode publishes no reduction, uses the
\* coefficients of its static twin and leaves the same output and filter memory.
C8_DynamicEqualsStaticAboveInput ==
    (bandPc = "processed" /\ aboveAll) =>
        /\ band.gainReductionDB = 0
        /\ band.coeffs = twin.coeffs
        /\ buffer = twinBuffer
        /\ twinSame

C8_Witness ==
    /\ bandPc = "processed" /\ aboveAll /\ Dynamic
    /\ blocks = MaxBlocks
    /\ band.sampleRate > 0
    /\ band.env.envelope > 0
    /\ buffer = twinBuffer
    /\ buffer # inBuffer

---------------------------------------------------------------------------
(* Claims about the processor, checked under Spec *)

\* the filters the first n bands put on the block, in the order they ran
RECURSIVE Cascade(_)
Cascade(n) ==
    IF n = 0
    THEN <<>>
    ELSE Cascade(n - 1) \o (IF bands[n - 1].params.enabled
                            THEN <<bands[n - 1].coeffs>>
                            ELSE <<>>)

InBlock == audioPc \in {"loop", "post"}

\* C1: in every block the bands run in ascending index order from band 0, each
\* once and none skipped, every band filtering in place what the bands before
\* it left in the buffer; and when the count was not changed during the block,
\* the bands that ran are exactly 0 .. activeBandCount-1.
C1_BandsInSeries ==
    InBlock =>
        /\ applied = [k \in 1..loopI |-> k - 1]
        /\ \A ch \in 1..NumChannels :
              /\ audioBuf[ch].x = prePushed[ch].x
              /\ audioBuf[ch].fx = Cascade(loopI)
        /\ (audioPc = "post" /\ ~countChanged => Len(applied) = activeBandCount)

\* a loud block went through all eight bands in one block
C1_Witness ==
    /\ audioPc = "post"
    /\ ~countChanged
    /\ Len(applied) = numBands
    /\ prePushed = LoudBuffer
    /\ Len(audioBuf[NumChannels].fx) = numBands

\* C2: the active band count is in [1, numBands] in every reachable state
C2_CountInRange == activeBandCount \in 1..numBands

\* a store made during a block brought the count to the upper end of the range
C2_Witness == activeBandCount = numBands /\ countChanged

\* C3: a change of the count during a block does not alter the bands applied to
\* that block: when the loop has ended, the number of bands that ran is the
\* count at the start of the block.
C3_CountChangeWaitsForNextBlock ==
    audioPc = "post" => Len(applied) = countAtStart

---------------------------------------------------------------------------
(* Claims about the spectrum analyzer, checked under SpecSA *)

\* C9: after N appended samples there have been floor(N / hopSize) captures,
\* however the samples were split into calls (while a capture is being copied
\* it is the one not yet counted); the snapshot a capture leaves is the last
\* fftSize samples of the ring, oldest first; and a capture raises the flag,
\* which stays up until processFFT takes it.
C9_CaptureEveryHop ==
    /\ hopCounter = pushed % hopSize
    /\ captures = (pushed \div hopSize) - (IF prodPc = "capture" THEN 1 ELSE 0)
    /\ capturedAt = captures * hopSize
    /\ prodPc # "capture" => fftData = Window(capturedAt)
    /\ captures > capsAtTake => newFFTDataAvailable

\* captures were made across calls until the ring had wrapped, and the last
\* one is pending
C9_Witness ==
    /\ prodPc = "idle"
    /\ captures >= 2
    /\ pushed > fftSize
    /\ fftData = Window(pushed)
    /\ fftData # Zeros
    /\ newFFTDataAvailable
    /\ lastCall = "none"

\* the copy of processFFT is done and no capture wrote fftData meanwhile
CopyDone == consPc = "copy" /\ cpJ = fftSize /\ ~overlapped

\* C10: the hand-off is one slot, the last capture winning: however many captures
\* were made since the consumer last took one, a processFFT that no capture
\* overlaps copies the most recent of them, the one that was the latest when
\* it took the flag; and a processFFT called when no
\* capture was made since the last one proceeded changes nothing.
C10_SingleSlotLastWriteWins ==
    /\ [](CopyDone => renderBuffer = Window(capsAtTake * hopSize))
    /\ [][ProcessFFT /\ captures = capsAtTake
            => /\ lastCall' = "noop"
               /\ UNCHANGED <<newFFTDataAvailable, consumerVars, fftData>>]_vars

\* two captures were made between two takes, processFFT got the second, and
\* the call after it did nothing
C10_Witness ==
    /\ lastCall = "noop"
    /\ consPc = "idle"
    /\ ~overlapped
    /\ capsAtTake >= capsAtPrevTake + 2
    /\ captures = capsAtTake
    /\ ~newFFTDataAvailable

\* the copy of processFFT is done, whatever the producer did meanwhile
CopyComplete == consPc = "copy" /\ cpJ = fftSize

\* C11: with pushSamples running concurrently with processFFT, the window
\* processFFT has copied into its work buffer is never torn: all its fftSize
\* samples are the window of one and the same capture.
C11_CopyNeverTorn ==
    CopyComplete => \E k \in 1..(MaxSamples \div hopSize) : renderBuffer = Window(k * hopSize)

\* the bins processFFT writes from the window w with its default range
BinsOf(w) ==
    SpectrumBins(FrequencyOnlyForwardTransform(Windowed(w)), DefaultMinDB, DefaultMaxDB)

\* C12: processFFT tests and clears the flag in one step.  Called with the flag
\* clear it leaves the output array, the work buffer and the flag as they were
\* and returns; called with the flag set it clears the flag and goes on, and
\* when it has returned every one of the fftSize/2 output bins holds the value
\* computed from the window it copied.
C12_TestAndClear ==
    /\ [][ProcessFFT /\ ~newFFTDataAvailable
            => /\ UNCHANGED <<magnitudeDB, renderBuffer, newFFTDataAvailable>>
               /\ consPc' = "idle"]_vars
    /\ [][ProcessFFT /\ newFFTDataAvailable
            => ~newFFTDataAvailable' /\ consPc' = "copy"]_vars
    /\ []((lastCall = "proceeded" /\ consPc = "idle" /\ ~overlapped)
            => /\ DOMAIN magnitudeDB = BinIndex
               /\ magnitudeDB = BinsOf(Window(capsAtTake * hopSize)))

\* a call that proceeded wrote bins other than the initial zeros, and a call
\* made after it with the flag clear left them
C12_Witness ==
    /\ lastCall = "noop"
    /\ consPc = "idle"
    /\ capsAtTake >= 1
    /\ ~overlapped
    /\ magnitudeDB = BinsOf(Window(capsAtTake * hopSize))
    /\ \E i \in BinIndex : magnitudeDB[i] > 0

---------------------------------------------------------------------------
(* Claims about the audio thread against the consumer, checked under SpecAudio *)

\* the audio thread is inside processBlock
BlockRunning == audioPc # "idle"

\* C13: the producer is never blocked by the consumer.  Whatever the consumer
\* has done or is doing, a running pushSamples always has a step it can take;
\* and with the audio thread scheduled and nothing asked of the consumer, which
\* may never call processFFT, every pushSamples and every processBlock runs to
\* its end.
C13_ProducerNeverBlocked ==
    /\ []((prodPc # "idle") => ENABLED PushStep)
    /\ (prodPc # "idle") ~> (prodPc = "idle")
    /\ BlockRunning ~> ~BlockRunning

\* a block ran to its end, capture included, with the flag of its capture
\* still up: the consumer never took it
C13_Witness ==
    /\ audioPc = "idle"
    /\ engBlocks >= 1
    /\ captures >= 1
    /\ newFFTDataAvailable
    /\ lastCall = "none"
    /\ postPushed # <<>>

---------------------------------------------------------------------------
(* Heap allocations of the audio thread, checked under Spec *)

\* juce::AudioBuffer<float> monoBuffer (1, numSamples): one buffer from the heap
MonoBufferAllocs == 1

\* updateFilterCoefficients: one Coefficients object from the heap (a make...
\* factory, or new for the notch) unless the sample rate guard returns first
AllocsOfUpdateFilterCoefficients(b) == IF b.sampleRate <= 0 THEN 0 ELSE 1

\* updateSidechainFilter: the object makeBandPass returns
AllocsOfUpdateSidechainFilter(b) == IF b.sampleRate <= 0 THEN 0 ELSE 1

\* updateBandParams (i) and bands[i].process (buffer), b being the band after them
AllocsOfBand(b) ==
    AllocsOfUpdateFilterCoefficients(b) + AllocsOfUpdateSidechainFilter(b)
        + (IF b.params.enabled /\ b.params.dynamicOn
           THEN AllocsOfUpdateFilterCoefficients(b)
           ELSE 0)

RECURSIVE AllocsOfBands(_)
AllocsOfBands(n) == IF n = 0 THEN 0 ELSE AllocsOfBands(n - 1) + AllocsOfBand(bands[n - 1])

\* the heap allocations processBlock has made so far in the running block
AllocsInBlock == IF audioPc = "idle" THEN 0 ELSE MonoBufferAllocs + AllocsOfBands(loopI)

\* C14: no memory is allocated inside processBlock: every buffer and every
\* coefficient object a block uses was allocated in prepareToPlay.
C14_NoAllocationInBlock == AllocsInBlock = 0

---------------------------------------------------------------------------
(* SpecFFT: processFFT from the copy on, for a window and a dB range drawn   *)
(* from InputWindows and DbRanges                                           *)

\* processFFT with the flag set: copy, window, transform, the loop over the bins
ProcessFFTCall ==
    /\ fnPc = "ready"
    /\ fnBins' = SpectrumBins(FrequencyOnlyForwardTransform(Windowed(fnWindow)),
                              fnMinDB, fnMaxDB)
    /\ fnPc' = "done"
    /\ UNCHANGED <<fnWindow, fnMinDB, fnMaxDB>>
    /\ UNCHANGED <<bandVars, engineVars, saVars, curveVars>>

\* the next window is captured and the next call's arguments are chosen
NextWindow(w, range) ==
    /\ fnPc = "done"
    /\ fnWindow' = w
    /\ fnMinDB' = range[1]
    /\ fnMaxDB' = range[2]
    /\ fnPc' = "ready"
    /\ UNCHANGED fnBins
    /\ UNCHANGED <<bandVars, engineVars, saVars, curveVars>>

InitFFT ==
    /\ InitBandVars /\ InitEngineVars /\ InitSAVars /\ InitCurveVars
    /\ fnWindow \in InputWindows
    /\ \E range \in DbRanges : fnMinDB = range[1] /\ fnMaxDB = range[2]
    /\ fnBins = [i \in BinIndex |-> 0]
    /\ fnPc = "ready"

NextFFT ==
    \/ ProcessFFTCall
    \/ \E w \in InputWindows, range \in DbRanges : NextWindow(w, range)

SpecFFT == InitFFT /\ [][NextFFT]_vars

\* C15: every bin processFFT writes lies in [0,1] (0 .. 1000 thousandths),
\* for every input window and every minDB < maxDB.
C15_BinsInUnitRange ==
    fnPc = "done" => \A i \in BinIndex : 0 <= fnBins[i] /\ fnBins[i] <= 1000

---------------------------------------------------------------------------
(* SpecCurve: the editor's timer checks the curve cache while the window is  *)
(* resized, parameters change, the band count is set and the audio thread   *)
(* publishes gain reductions                                                *)

curveCaches == <<cachedBandMagnitudes, cachedTotalMagnitude, curveFrequencies>>

\* rebuildCurveCache, from the snapshots the check has just updated
RebuildCurveCache(snaps) ==
    /\ curveNeedsUpdate' = FALSE
    /\ IF lastSampleRate <= 0 \/ width <= 0
       THEN /\ UNCHANGED curveCaches
            /\ lastTick' = "returned"
       ELSE /\ cachedBandMagnitudes' =
                    [b \in BandIndex |->
                        IF b < activeBandCount
                        THEN BandMagnitudes(snaps[b])
                        ELSE cachedBandMagnitudes[b]]
            /\ cachedTotalMagnitude' = TotalMagnitude(snaps, activeBandCount)
            /\ curveFrequencies' = [i \in PointIndex |-> CurveFrequencies[i + 1]]
            /\ lastTick' = "rebuilt"

\* checkAndUpdateCurve, as timerCallback calls it
CheckAndUpdateCurve ==
    /\ lastActiveBandCount' = activeBandCount
    /\ lastSnapshots' = UpdatedSnapshots
    /\ IF CurveChanged
       THEN RebuildCurveCache(UpdatedSnapshots)
       ELSE /\ UNCHANGED <<curveNeedsUpdate, curveCaches>>
            /\ lastTick' = "reused"
    /\ UNCHANGED <<width, grNow>>
    /\ UNCHANGED <<bandVars, engineVars, saVars, fnVars>>

\* the component is given the width w: resized
Resized(w) ==
    /\ width' = w
    /\ curveNeedsUpdate' = TRUE
    /\ UNCHANGED <<lastActiveBandCount, lastSnapshots, curveCaches, grNow, lastTick>>
    /\ UNCHANGED <<bandVars, engineVars, saVars, fnVars>>

\* the host or a control sets parameter values
ParameterChanged(tree) ==
    /\ apvts' = tree
    /\ UNCHANGED <<activeBandCount, lastSampleRate, bands, audioPc, loopI, audioBuf,
                   prePushed, postPushed, applied, countAtStart, countChanged, engBlocks>>
    /\ UNCHANGED <<bandVars, saVars, editorVars>>

\* process of band VariedBand stores a gain reduction: 0 unless the band is
\* enabled and in dynamic mode
StoreGainReduction(reduction) ==
    /\ reduction = 0 \/ (apvts[VariedBand].enabled /\ apvts[VariedBand].dynamicOn)
    /\ grNow' = [grNow EXCEPT ![VariedBand] = reduction]
    /\ UNCHANGED <<curveNeedsUpdate, lastActiveBandCount, lastSnapshots, curveCaches,
                   width, lastTick>>
    /\ UNCHANGED <<bandVars, engineVars, saVars, fnVars>>

InitCurve == InitBandVars /\ InitEngineVars /\ InitSAVars /\ InitEditorVars

NextCurve ==
    \/ CheckAndUpdateCurve
    \/ \E w \in Widths : Resized(w)
    \/ \E tree \in CurveTrees : ParameterChanged(tree)
    \/ \E reduction \in GainReductions : StoreGainReduction(reduction)
    \/ \E count \in CurveCounts : SetActiveBandCount(count)

SpecCurve == InitCurve /\ [][NextCurve]_vars

---------------------------------------------------------------------------
(* Claims about the curve cache, checked under SpecCurve *)

\* the tick entered rebuildCurveCache
RebuildInvoked == lastTick' \in {"returned", "rebuilt"}

\* a tracked parameter of active band i differs from its stored snapshot
ParameterDiffers(i) ==
    \/ apvts[i].frequency # lastSnapshots[i].freq
    \/ 10 * apvts[i].gain # lastSnapshots[i].gain
    \/ apvts[i].q # lastSnapshots[i].q
    \/ TypeIndex(apvts[i].type) # lastSnapshots[i].type
    \/ apvts[i].enabled # lastSnapshots[i].enabled
    \/ apvts[i].dynamicOn # lastSnapshots[i].dynamic

\* the gain reduction the snapshot tracks: the published one for a band in
\* dynamic mode, 0 for a band in static mode
TrackedReduction(i) == IF apvts[i].dynamicOn THEN grNow[i] ELSE 0

\* the rebuild condition, the gain reduction being the band's published one
RebuildDue ==
    \/ curveNeedsUpdate
    \/ activeBandCount # lastActiveBandCount
    \/ \E i \in BandIndex :
            /\ i < activeBandCount
            /\ \/ ParameterDiffers(i)
               \/ Abs(grNow[i] - lastSnapshots[i].gr) > GrTolerance

\* the rebuild condition, the gain reduction being the tracked one
RebuildDueTracked ==
    \/ curveNeedsUpdate
    \/ activeBandCount # lastActiveBandCount
    \/ \E i \in BandIndex :
            /\ i < activeBandCount
            /\ \/ ParameterDiffers(i)
               \/ Abs(TrackedReduction(i) - lastSnapshots[i].gr) > GrTolerance

\* C16 as stated: a tick rebuilds the curve cache if and only if the flag is
\* set, the active band count differs from the previous tick's, or an active
\* band's frequency, gain, Q, type, enabled or dynamicOn differs from its
\* snapshot or its gain reduction differs from the stored one by more than
\* 0.05 dB; otherwise the cached arrays and the snapshots are left unchanged.
C16_RebuildIffChanged ==
    [][CheckAndUpdateCurve =>
            /\ RebuildInvoked <=> RebuildDue
            /\ ~RebuildDue => UNCHANGED <<curveCaches, lastSnapshots>>]_vars

\* C16 amended: the same, the gain reduction compared being the one the
\* snapshot tracks, which is 0 for a band that is not in dynamic mode.
C16_RebuildIffTrackedChanged ==
    [][CheckAndUpdateCurve =>
            /\ RebuildInvoked <=> RebuildDueTracked
            /\ ~RebuildDueTracked => UNCHANGED <<curveCaches, lastSnapshots>>]_vars

\* a tick that reused a cache built before, the gain reduction of band
\* VariedBand having moved by no more than the tolerance
C16_Witness ==
    /\ lastTick = "reused"
    /\ ~curveNeedsUpdate
    /\ lastActiveBandCount = activeBandCount
    /\ \A i \in BandIndex : i < activeBandCount => ~ParameterDiffers(i)
    /\ apvts[VariedBand].dynamicOn
    /\ grNow[VariedBand] # lastSnapshots[VariedBand].gr
    /\ Abs(grNow[VariedBand] - lastSnapshots[VariedBand].gr) <= GrTolerance
    /\ \E i \in PointIndex : cachedTotalMagnitude[i] # 0

\* the factor band b contributes at point i: 1 for a disabled band
FactorOf(b, i) ==
    IF lastSnapshots[b].enabled
    THEN MagnitudeOf(lastSnapshots[b], CurveFrequencies[i + 1])
    ELSE 1000

\* the product of the factors of the bands 0 .. n - 1 at point i
RECURSIVE ProductOfFactors(_, _)
ProductOfFactors(n, i) ==
    IF n = 0 THEN 1000 ELSE (ProductOfFactors(n - 1, i) * FactorOf(n - 1, i)) \div 1000

\* C17: after a completed rebuild the aggregate curve at every point is the dB
\* value of the product, over the active bands, of the bands' linear
\* magnitudes, a disabled band contributing the factor 1.
C17_AggregateIsProduct ==
    lastTick = "rebuilt" =>
        \A i \in PointIndex :
            cachedTotalMagnitude[i] =
                GainToDecibels(ProductOfFactors(lastActiveBandCount, i), MinusInfDb)

\* a rebuild with a disabled band and two bands that both stop the same point
C17_Witness ==
    /\ lastTick = "rebuilt"
    /\ lastActiveBandCount >= 3
    /\ ~lastSnapshots[0].enabled
    /\ \E i \in PointIndex :
            /\ FactorOf(VariedBand, i) = 0
            /\ FactorOf(VariedBand + 1, i) = 0
            /\ cachedTotalMagnitude[i] = MinusInfDb
    /\ \E i \in PointIndex : cachedTotalMagnitude[i] = 0

---------------------------------------------------------------------------
(* Claims about updateParams, EnvelopeFollower and prepare, checked under SpecBand *)

\* C18: updateParams is idempotent: a second call with the same BandParams
\* leaves the coefficients, the stored params and the envelope's attack and
\* release coefficients as the first call left them.
C18_UpdateParamsIdempotent ==
    [][(bandPc' = "updated" /\ repeated') =>
            /\ band'.coeffs = band.coeffs
            /\ band'.sidechain = band.sidechain
            /\ band'.params = band.params
            /\ band'.env.attackCoeff = band.env.attackCoeff
            /\ band'.env.releaseCoeff = band.env.releaseCoeff]_vars

\* the second of two equal calls has returned, on a prepared band
C18_Witness ==
    /\ bandPc = "updated"
    /\ repeated
    /\ band.sampleRate > 0
    /\ band.coeffs # PassThrough
    /\ band.params.type = "Notch"
    /\ band.env.attackCoeff > 0

\* the level process hands to the envelope follower for the buffer it was given
EnvInput ==
    DecibelsToGain(GainToDecibels(PeakLevel(inBuffer), MinusInfDb), MinusInfDb)

\* C19: EnvelopeFollower.process (x) takes the attack coefficient when x is
\* above the envelope and the release coefficient otherwise, sets
\* envelope = coeff * envelope + (1 - coeff) * x and returns it; the new
\* envelope lies between the old envelope and x.
C19_EnvelopeStep ==
    (bandPc = "processed" /\ Dynamic) =>
        LET x == EnvInput
            new == band.env.envelope
            coeff == IF x > envBefore THEN band.env.attackCoeff ELSE band.env.releaseCoeff
        IN  /\ new = (coeff * envBefore + (CoeffOne - coeff) * x) \div CoeffOne
            /\ Min(envBefore, x) <= new
            /\ new <= Max(envBefore, x)
            /\ band.gainReductionDB =
                    ReductionDB(GainToDecibels(new, MinusInfDb),
                                band.params.threshold, band.params.ratio)

\* the envelope is falling towards a quieter block: the release coefficient
\* was used, and it differs from the attack coefficient
C19_Witness ==
    /\ bandPc = "processed"
    /\ Dynamic
    /\ blocks = 2
    /\ band.env.attackCoeff # band.env.releaseCoeff
    /\ band.env.releaseCoeff > 0
    /\ 0 < EnvInput
    /\ EnvInput < band.env.envelope
    /\ band.env.envelope < envBefore

\* C20: after prepare the envelope is 0 and the published gain reduction is
\* 0, whatever was processed before; prepare changes neither the stored
\* BandParams nor the attack and release coefficients.
C20_PrepareResets ==
    /\ [](bandPc = "fresh" => band.env.envelope = 0 /\ band.gainReductionDB = 0)
    /\ [][bandPc' = "fresh" =>
            /\ band'.params = band.params
            /\ band'.env.attackCoeff = band.env.attackCoeff
            /\ band'.env.releaseCoeff = band.env.releaseCoeff]_vars

\* prepare has run on a band that had processed blocks in dynamic mode
C20_Witness ==
    /\ bandPc = "fresh"
    /\ blocks >= 1
    /\ Dynamic
    /\ band.params # DefaultParams
    /\ band.env.attackCoeff > 0
    /\ band.coeffs # PassThrough

---------------------------------------------------------------------------
(* Claims about the guards of the coefficient computation *)

\* C21: when updateParams asks for coefficients while the sample rate is not
\* positive, the band ends up with the pass-through coefficient set, whatever
\* coefficients it held before.
C21_NeutralWithoutSampleRate ==
    (bandPc = "updated" /\ band.sampleRate <= 0) => band.coeffs = PassThrough


\* C22: the frequency and the Q that reach the coefficient formulas have been
\* clamped: the frequency lies strictly between 0 and the Nyquist frequency of
\* the sample rate the formulas are given, and Q is positive, for every type.
C22_ArgumentsClamped ==
    band.coeffs # PassThrough =>
        /\ 0 < band.coeffs.frequency
        /\ 2 * band.coeffs.frequency < band.coeffs.sampleRate
        /\ 0 < band.coeffs.q

---------------------------------------------------------------------------
(* SpecGuards: the host prepares the processor with any sample rate, zero    *)
(* included, while the editor's timer checks the curve cache                *)

\* the sample rates prepareToPlay is handed here
GuardSampleRates == {0, 44100}

NextGuards ==
    \/ CheckAndUpdateCurve
    \/ \E w \in Widths : Resized(w)
    \/ \E tree \in ParamTrees : ParameterChanged(tree)
    \/ \E sampleRate \in GuardSampleRates : PrepareToPlay(sampleRate)

SpecGuards == InitCurve /\ [][NextGuards]_vars

\* C23: a rebuild attempted with sample rate <= 0 or width <= 0 returns with
\* the per-band arrays, the aggregate array and the frequency grid unchanged,
\* and updateParams on a band whose sample rate is <= 0 leaves the envelope's
\* attack and release coefficients unchanged.
C23_GuardsShortCircuit ==
    /\ [][(CheckAndUpdateCurve /\ (lastSampleRate <= 0 \/ width <= 0)) =>
                /\ UNCHANGED <<cachedBandMagnitudes, cachedTotalMagnitude, curveFrequencies>>
                /\ lastTick' \in {"reused", "returned"}]_vars
    /\ [][\A sampleRate \in GuardSampleRates :
                (PrepareToPlay(sampleRate) /\ sampleRate <= 0) =>
                    \A i \in BandIndex :
                        /\ bands'[i].env.attackCoeff = bands[i].env.attackCoeff
                        /\ bands'[i].env.releaseCoeff = bands[i].env.releaseCoeff]_vars

\* a rebuild has returned early for want of a sample rate, leaving a curve
\* built before, and the bands keep coefficients computed at 44100 Hz
C23_Witness ==
    /\ lastTick = "returned"
    /\ ~curveNeedsUpdate
    /\ lastSampleRate <= 0
    /\ width > 0
    /\ \E i \in PointIndex : curveFrequencies[i] > 0
    /\ bands[0].sampleRate <= 0
    /\ bands[0].env.attackCoeff > 0


\* the snapshot of a band in static mode whose gain is the given one
StaticAt(snap, gain) == [snap EXCEPT !.gain = gain, !.gr = 0, !.dynamic = FALSE]

\* the effective gain of a snapshot, in hundredths of a dB
EffectiveGain(snap) == IF snap.dynamic THEN snap.gain - snap.gr ELSE snap.gain

\* C24: after a rebuild the curve of each active enabled band is the response
\* at the effective gain: the snapshot's gain minus its gain reduction for a
\* dynamic band, the plain gain otherwise; and the gain reduction of a
\* non-dynamic band's snapshot is 0 whatever the band publishes.
C24_EffectiveGain ==
    /\ \A b \in BandIndex : ~lastSnapshots[b].dynamic => lastSnapshots[b].gr = 0
    /\ lastTick = "rebuilt" =>
            \A b \in BandIndex :
                (b < lastActiveBandCount /\ lastSnapshots[b].enabled) =>
                    cachedBandMagnitudes[b] =
                        BandMagnitudes(StaticAt(lastSnapshots[b],
                                                EffectiveGain(lastSnapshots[b])))

\* a rebuild with band VariedBand dynamic and reduced by 5 dB, its curve 5 dB
\* down where the band acts
C24_Witness ==
    /\ lastTick = "rebuilt"
    /\ lastSnapshots[VariedBand].enabled
    /\ lastSnapshots[VariedBand].dynamic
    /\ lastSnapshots[VariedBand].gain = 0
    /\ lastSnapshots[VariedBand].gr = 500
    /\ \E i \in PointIndex : cachedBandMagnitudes[VariedBand][i] = -50

\* a rebuild with band VariedBand static while it still publishes 5 dB
C24_WitnessStatic ==
    /\ lastTick = "rebuilt"
    /\ ~lastSnapshots[VariedBand].dynamic
    /\ grNow[VariedBand] = 500


\* C25: for LowCut, HighCut, Notch and BandPass the coefficients depend on
\* sample rate, frequency and Q only: they are the same for every static gain
\* and every gain reduction, so a dynamic-mode block leaves the band with the
\* coefficients of the same band in static mode, also when it publishes a
\* non-zero gain reduction.
C25_CutTypesIgnoreGain ==
    (bandPc \in {"updated", "processed"} /\ band.sampleRate > 0
            /\ band.params.type \in CutTypes) =>
        /\ band.coeffs = twin.coeffs
        /\ \A gain \in Gains : \A reduction \in {0, grBefore, band.gainReductionDB} :
                band.coeffs = MakeCoefficients(band.params.type, band.sampleRate,
                                               band.params.frequency, band.params.q,
                                               gain - reduction)

\* a dynamic-mode block of a cut band with a non-zero static gain that has
\* published a non-zero gain reduction
C25_Witness ==
    /\ bandPc = "processed"
    /\ band.sampleRate > 0
    /\ band.params.type \in CutTypes
    /\ band.params.enabled /\ band.params.dynamicOn
    /\ band.params.gain # 0
    /\ band.gainReductionDB > 0
    /\ ~twin.params.dynamicOn


---------------------------------------------------------------------------
(* SpecBlocks: a series of blocks.  The processor as in Spec, run for more   *)
(* blocks against fewer calls of the message thread: setActiveBandCount with *)
(* a count below the range or of 3, and setStateInformation with a state     *)
(* saved without a band count.                                               *)

\* blocks begun in one run of the series
MaxSeriesBlocks == 2

\* the arguments of setActiveBandCount in the series
SeriesCounts == {0, 3}

\* the states restored in the series
SeriesStates ==
    {[valid |-> TRUE, hasCount |-> FALSE, count |-> 0, tree |-> t] : t \in ParamTrees}

NextBlocks ==
    \/ \E sampleRate \in HostSampleRates : PrepareToPlay(sampleRate)
    \/ \E buf \in EngineInputs : BeginBlockWithin(buf, MaxSeriesBlocks)
    \/ LoopStep
    \/ EndBlock
    \/ \E count \in SeriesCounts : SetActiveBandCount(count)
    \/ \E xml \in SeriesStates : SetStateInformation(xml)

SpecBlocks == Init /\ [][NextBlocks]_vars

---------------------------------------------------------------------------
(* The order of the steps of processBlock, checked under SpecBlocks *)

\* the step of processBlock that pushes the pre-EQ analyzer
PrePushStep == audioPc = "idle" /\ audioPc' = "loop"

\* one pass of the loop body of processBlock, for band loopI
LoopBodyStep == audioPc = "loop" /\ loopI' = loopI + 1

\* the step of processBlock that pushes the post-EQ analyzer
PostPushStep == audioPc = "post" /\ audioPc' = "idle"

\* C26: the steps of a processBlock come in a fixed order.  The pre-EQ analyzer
\* is pushed the block as the host handed it over, no band having touched it;
\* each pass of the loop refreshes the band's parameters from the tree and
\* then processes the band with them, the post-EQ push not yet made; and the
\* post-EQ analyzer is pushed the buffer as the bands that ran left it, no
\* band touching the buffer between the end of the loop and that push or
\* after it.
C26_StepsInOrder ==
    [][/\ PrePushStep =>
            /\ prePushed' = audioBuf'
            /\ applied' = <<>>
            /\ postPushed' = <<>>
            /\ \A ch \in 1..NumChannels : audioBuf'[ch].fx = <<>>
       /\ LoopBodyStep =>
            /\ postPushed = <<>> /\ postPushed' = <<>>
            /\ applied' = Append(applied, loopI)
            /\ bands'[loopI].params = apvts[loopI]
            /\ bands'[loopI] = Process(UpdateParams(bands[loopI], apvts[loopI]),
                                       PeakLevel(audioBuf))
            /\ \A i \in BandIndex \ {loopI} : bands'[i] = bands[i]
       /\ PostPushStep =>
            /\ postPushed' = audioBuf
            /\ applied = [k \in 1..loopI |-> k - 1]
            /\ \A ch \in 1..NumChannels : audioBuf[ch].fx = Cascade(loopI)
       /\ audioPc = "post" => (bands' = bands /\ audioBuf' = audioBuf)
       /\ (audioPc = "idle" /\ audioPc' = "idle") =>
            (audioBuf' = audioBuf /\ postPushed' = postPushed)]_vars

\* a loud block has run to its end through several bands, a band of a tree
\* other than the default one among them
C26_Witness ==
    /\ audioPc = "idle"
    /\ prePushed = LoudBuffer
    /\ postPushed # <<>>
    /\ Len(postPushed[NumChannels].fx) >= 2
    /\ postPushed[NumChannels].x = prePushed[NumChannels].x
    /\ \E i \in BandIndex : bands[i].params = apvts[i] /\ apvts[i] # DefaultTree[i]


---------------------------------------------------------------------------
(* Index ranges of the analyzer, checked under SpecSA *)

\* C27: after every completed pushSamples call and after every sample appended
\* inside it, the write cursor is in [0, fftSize-1] and the hop counter in
\* [0, hopSize-1]; every snapshot index and every ring index a capture uses is
\* in [0, fftSize-1].
C27_IndicesInRange ==
    /\ writePos \in 0..(fftSize - 1)
    /\ hopCounter \in 0..(hopSize - 1)
    /\ (prodPc = "capture" /\ capJ < fftSize) =>
            /\ capJ \in 0..(fftSize - 1)
            /\ CaptureIndex(writePos, capJ) \in 0..(fftSize - 1)

\* the cursor has wrapped around the ring, and a capture is reading the ring
\* across its end
C27_Witness ==
    /\ pushed > fftSize
    /\ prodPc = "capture"
    /\ capJ < fftSize
    /\ writePos + capJ >= fftSize
    /\ captures >= 2


---------------------------------------------------------------------------
(* The flag between producer and consumer, checked under SpecSA *)

\* C28: under any interleaving the processFFT calls that proceeded are never
\* more than the captures made so far; and a capture that raises the flag
\* after the consumer's test-and-clear is not lost: the flag is up whenever a
\* capture was made since the last call that proceeded, and only a processFFT
\* that proceeds lowers it.
C28_ProceedsBoundedByCaptures ==
    /\ [](proceeded <= captures)
    /\ [](captures > capsAtTake => newFFTDataAvailable)
    /\ [][(newFFTDataAvailable /\ ~newFFTDataAvailable') =>
                (consPc = "idle" /\ proceeded' = proceeded + 1)]_vars

\* a capture raised the flag while the consumer, past its test-and-clear of an
\* earlier one, was still in its call: the flag is up for a later call
C28_Witness ==
    /\ proceeded = 1
    /\ consPc = "copy"
    /\ captures = capsAtTake + 1
    /\ newFFTDataAvailable

---------------------------------------------------------------------------
(* SpecLive: the analyzer with a producer and a consumer that never stop.    *)
(* The steps are those of SpecSA with the counters of the run's history      *)
(* (pushed, captures, capturedAt, capsAtTake, capsAtPrevTake, proceeded)     *)
(* left alone, so that a run has no end, and with the host's signal taken   *)
(* silent.                                                                   *)

historyCounters == <<pushed, captures, capturedAt, capsAtTake, capsAtPrevTake, proceeded>>

\* every sample of the host's signal in a run without end
SteadySample == 0

\* pushSamples (data, numSamples) is called
LivePushSamples(numSamples) ==
    /\ prodPc = "idle"
    /\ pushLeft' = numSamples
    /\ prodPc' = IF numSamples > 0 THEN "append" ELSE "idle"
    /\ UNCHANGED <<circularBuffer, fftData, writePos, hopCounter, newFFTDataAvailable,
                   capJ, overlapped, lastCall>>
    /\ UNCHANGED <<historyCounters, consumerVars>>
    /\ UNCHANGED <<bandVars, engineVars, editorVars>>

\* one pass of the loop of pushSamples up to the test of the hop counter
LiveAppendSample ==
    /\ prodPc = "append"
    /\ circularBuffer' = [circularBuffer EXCEPT ![writePos] = SteadySample]
    /\ writePos' = BitAnd(writePos + 1, fftSize - 1)
    /\ IF HopReached(hopCounter + 1)
       THEN /\ hopCounter' = 0
            /\ capJ' = 0
            /\ prodPc' = "capture"
            /\ UNCHANGED pushLeft
       ELSE /\ hopCounter' = hopCounter + 1
            /\ NextSample
            /\ UNCHANGED capJ
    /\ UNCHANGED <<fftData, newFFTDataAvailable, overlapped, lastCall>>
    /\ UNCHANGED <<historyCounters, consumerVars>>
    /\ UNCHANGED <<bandVars, engineVars, editorVars>>

\* a slip: the capture made without raising the flag
LiveCaptureSet_noFlag ==
    /\ prodPc = "capture"
    /\ capJ = fftSize
    /\ NextSample
    /\ UNCHANGED <<circularBuffer, fftData, writePos, hopCounter, newFFTDataAvailable,
                   capJ, overlapped, lastCall>>
    /\ UNCHANGED <<historyCounters, consumerVars>>
    /\ UNCHANGED <<bandVars, engineVars, editorVars>>

\* the capture is complete: newFFTDataAvailable.set (true)
LiveCaptureSet ==
    /\ prodPc = "capture"
    /\ capJ = fftSize
    /\ newFFTDataAvailable' = TRUE
    /\ NextSample
    /\ UNCHANGED <<circularBuffer, fftData, writePos, hopCounter, capJ, overlapped,
                   lastCall>>
    /\ UNCHANGED <<historyCounters, consumerVars>>
    /\ UNCHANGED <<bandVars, engineVars, editorVars>>

\* processFFT (magnitudeDB) is called: the test-and-clear of the flag
LiveProcessFFT ==
    /\ consPc = "idle"
    /\ LET cas == CompareAndSetBool(newFFTDataAvailable, FALSE, TRUE)
       IN  /\ newFFTDataAvailable' = cas.value
           /\ IF cas.swapped
              THEN /\ consPc' = "copy"
                   /\ cpJ' = 0
                   /\ overlapped' = (prodPc = "capture")
                   /\ lastCall' = "proceeded"
              ELSE /\ lastCall' = "noop"
                   /\ UNCHANGED <<consPc, cpJ, overlapped>>
    /\ UNCHANGED <<circularBuffer, fftData, renderBuffer, writePos, hopCounter,
                   magnitudeDB, prodPc, pushLeft, capJ>>
    /\ UNCHANGED historyCounters
    /\ UNCHANGED <<bandVars, engineVars, editorVars>>

\* a step of the audio thread in or into pushSamples
LiveProducerStep ==
    \/ \E numSamples \in 0..MaxPush : LivePushSamples(numSamples)
    \/ LiveAppendSample
    \/ CaptureCopy
    \/ LiveCaptureSet

\* a step of the GUI thread in or into processFFT
LiveConsumerStep ==
    \/ LiveProcessFFT
    \/ CopyStep
    \/ Transform

NextLive ==
    \/ LiveProducerStep
    \/ LiveConsumerStep

\* the consumer has a step that changes the state: it is inside processFFT, or
\* a call would proceed, or a call would be the first no-op after another call
ConsumerCanStep == consPc = "copy" \/ newFFTDataAvailable \/ lastCall # "noop"

\* Both threads are scheduled: weak fairness of each, written out.  The
\* producer always has a step (a call of pushSamples when it is idle); the
\* consumer has one exactly when ConsumerCanStep holds.
LiveFair ==
    /\ []<><<LiveProducerStep>>_vars
    /\ ([]<>(~ConsumerCanStep) \/ []<><<LiveConsumerStep>>_vars)

SpecLive == InitSA /\ [][NextLive]_vars /\ LiveFair

\* a processFFT call goes past its test of the flag
Proceeds == consPc = "idle" /\ consPc' = "copy" /\ newFFTDataAvailable

\* C29: with the producer pushing samples forever and the consumer calling
\* processFFT forever, both weakly fair, processFFT proceeds infinitely often,
\* each time on a flag that a capture raised after the call that proceeded
\* before, and each such call runs to its end.
C29_ProceedsInfinitelyOften ==
    /\ []<><<Proceeds>>_vars
    /\ (consPc = "copy") ~> (consPc = "idle" /\ lastCall = "proceeded")
    /\ [][(~newFFTDataAvailable /\ newFFTDataAvailable') =>
                (prodPc = "capture" /\ capJ = fftSize)]_vars

\* a call has proceeded, and a capture is about to raise the flag while the
\* flag of the capture before it is still up: that window, gone from fftData,
\* will never be consumed
C29_Witness ==
    /\ lastCall = "proceeded"
    /\ consPc = "idle"
    /\ prodPc = "capture"
    /\ capJ = fftSize
    /\ newFFTDataAvailable


---------------------------------------------------------------------------
(* What processBlock leaves alone, checked under SpecBlocks *)

\* band i is run by the pass of the loop this step makes, as an active band
ProcessedAsActive(i) ==
    audioPc = "loop" /\ i = loopI /\ i < activeBandCount

\* this step is prepareToPlay, which prepares and refreshes all numBands bands
PrepareStep ==
    /\ audioPc = "idle" /\ audioPc' = "idle"
    /\ \E sampleRate \in HostSampleRates :
            bands' = [i \in BandIndex |->
                        UpdateParams(Prepare(bands[i], sampleRate), apvts[i])]

\* C30 as stated, in its last sentence: the gain reduction a band at an index
\* >= the active band count has published stays what it is in every step, so
\* getBandGainReduction returns it unchanged until the band is active in a
\* processed block again.
C30_InactiveBandsKeepState ==
    [][\A i \in BandIndex :
            i >= activeBandCount =>
                bands'[i].gainReductionDB = bands[i].gainReductionDB]_vars

\* C30, amended: no step of processBlock changes a band other than the one its
\* loop is processing as an active band, and outside processBlock a band's
\* state changes in prepareToPlay only; so a deactivated band's published gain
\* reduction stays what it was until the band is active in a processed block
\* again or prepareToPlay is called.
C30_InactiveBandsKeepStateInBlocks ==
    [][\A i \in BandIndex :
            bands'[i] # bands[i] => (ProcessedAsActive(i) \/ PrepareStep)]_vars

\* The second block of a run has come to the end of its loop with one band
\* active throughout: band 1, deactivated after the first block, still holds
\* the gain reduction it published there.
C30_Witness ==
    /\ engBlocks = 2
    /\ audioPc = "post"
    /\ ~countChanged
    /\ activeBandCount = 1
    /\ loopI = 1
    /\ bands[1].gainReductionDB > 0

===========================================================================
